---- MODULE Spec2Model ----
(***************************************************************************)
(* Model of the Web Push delivery path of kveeti/weather: the dispatcher   *)
(* of src/notify.rs (send_all, send_one and the steps send_one chains)     *)
(* and the callers that drive it.                                          *)
(*                                                                         *)
(* Strings that the code decodes are modelled by what their decoding       *)
(* yields: a base64url string is a record that says whether it decodes     *)
(* and which bytes it decodes to; a URL string is a record that says       *)
(* whether it parses and what its components are.                          *)
(***************************************************************************)
EXTENDS Integers, Sequences, FiniteSets, TLC

\* Longest subscription list handed to send_all.
MaxSubs == 3

\* Most payloads the model lets the process encrypt.
MaxEncryptions == 3

----------------------------------------------------------------------------
(* Results: anyhow::Result<()>.  An error keeps the message the code       *)
(* builds for it (or the name of the library error that `?` converts),     *)
(* and, for a rejected push, the status and body formatted into it.        *)

NoStatus == 0

Ok == [ok |-> TRUE, err |-> "", status |-> NoStatus, body |-> ""]

Err(msg) == [ok |-> FALSE, err |-> msg, status |-> NoStatus, body |-> ""]

ErrRejected(status, body) ==
    [ok |-> FALSE, err |-> "Push endpoint returned", status |-> status, body |-> body]

----------------------------------------------------------------------------
(* Key material.  Bytes are described by their length, their leading SEC1  *)
(* tag byte and whether they denote a point of P-256 (for a public key)    *)
(* or a scalar in [1, n-1] (for a private key).                            *)

Bytes(len, tag, valid) == [len |-> len, tag |-> tag, valid |-> valid]

\* A base64url string: b64 says whether URL_SAFE_NO_PAD accepts it.
B64(bytes) == [b64 |-> TRUE, bytes |-> bytes]

NotB64 == [b64 |-> FALSE, bytes |-> Bytes(0, 0, FALSE)]

\* p256dh values a subscription record may hold.
P256dhUncompressed == B64(Bytes(65, 4, TRUE))

P256dhCompressed == B64(Bytes(33, 2, TRUE))

P256dhLen64 == B64(Bytes(64, 4, FALSE))

P256dhOffCurve == B64(Bytes(65, 4, FALSE))

\* auth values
AuthSecret == B64(Bytes(16, 0, TRUE))

\* VAPID private keys: the 32-byte scalar printed by generate_vapid_keys,
\* the empty string Config::from_env defaults to, a 31-byte value, the
\* 32-byte zero scalar (out of range), and a string that is not base64url.
PrivValid == B64(Bytes(32, 0, TRUE))

PrivEmpty == B64(Bytes(0, 0, FALSE))

PrivLen31 == B64(Bytes(31, 0, FALSE))

PrivOutOfRange == B64(Bytes(32, 0, FALSE))

PrivKeys == {PrivValid, PrivEmpty, PrivLen31, PrivOutOfRange, NotB64}

\* URL_SAFE_NO_PAD.decode
URL_SAFE_NO_PAD_decode(s) ==
    IF s.b64 THEN [ok |-> TRUE, bytes |-> s.bytes]
    ELSE [ok |-> FALSE, bytes |-> s.bytes]

\* Mutant: the point is not validated, only the encoding's shape is.
from_sec1_bytes_shape_only(bytes) ==
    \/ bytes.tag = 4 /\ bytes.len = 65
    \/ bytes.tag \in {2, 3, 5} /\ bytes.len = 33

\* PublicKey::from_sec1_bytes: accepts the SEC1 encodings of a point that
\* is on the curve and is not the identity: uncompressed (tag 4, 65 bytes),
\* compressed (tag 2 or 3, 33 bytes) or compact (tag 5, 33 bytes).
from_sec1_bytes(bytes) ==
    /\ bytes.valid
    /\ \/ bytes.tag = 4 /\ bytes.len = 65
       \/ bytes.tag \in {2, 3, 5} /\ bytes.len = 33

----------------------------------------------------------------------------
(* Endpoints.                                                              *)

NoPort == 0

NoHost == ""

Url(scheme, host, port, path) ==
    [parses |-> TRUE, scheme |-> scheme, host |-> host, port |-> port, path |-> path]

NotUrl == [parses |-> FALSE, scheme |-> "", host |-> NoHost, port |-> NoPort, path |-> ""]

EpFcm == Url("https", "fcm.googleapis.com", NoPort, "/fcm/send/abc123")

EpPort == Url("https", "push.example.com", 8443, "/xyz")

EpDefaultPort == Url("https", "updates.push.example", 443, "/wpush/v2/k")

EpNoHost == Url("mailto", NoHost, NoPort, "ops@example.com")

DefaultPort(scheme) ==
    CASE scheme \in {"https", "wss"} -> 443
      [] scheme \in {"http", "ws"} -> 80
      [] scheme = "ftp" -> 21
      [] OTHER -> NoPort

\* Url::port(): None when absent or when it is the scheme's default.
UrlPort(url) ==
    IF url.port = DefaultPort(url.scheme) THEN NoPort ELSE url.port

\* Mutant: the origin of one push service is used for every endpoint.
extract_origin_of_fcm(endpoint) ==
    [ok |-> TRUE, err |-> "", origin |-> "https://fcm.googleapis.com"]

\* Mutant: the path is kept.
extract_origin_with_path(endpoint) ==
    IF ~endpoint.parses THEN [ok |-> FALSE, err |-> "url::ParseError", origin |-> ""]
    ELSE IF endpoint.host = NoHost
    THEN [ok |-> FALSE, err |-> "No host in endpoint URL", origin |-> ""]
    ELSE [ok |-> TRUE, err |-> "",
          origin |-> endpoint.scheme \o "://" \o endpoint.host \o endpoint.path]

\* extract_origin: scheme://host, then :port when Url::port() is Some.
extract_origin(endpoint) ==
    IF ~endpoint.parses THEN [ok |-> FALSE, err |-> "url::ParseError", origin |-> ""]
    ELSE IF endpoint.host = NoHost
    THEN [ok |-> FALSE, err |-> "No host in endpoint URL", origin |-> ""]
    ELSE LET origin == endpoint.scheme \o "://" \o endpoint.host
         IN IF UrlPort(endpoint) # NoPort
            THEN [ok |-> TRUE, err |-> "",
                  origin |-> origin \o ":" \o ToString(UrlPort(endpoint))]
            ELSE [ok |-> TRUE, err |-> "", origin |-> origin]

----------------------------------------------------------------------------
(* Payload Encryptor.  Cryptographic values are symbolic: a random value   *)
(* is named by the ordinal of the draw from OsRng that produced it (two    *)
(* draws never give the same 16 or 32 bytes), a derived value by the       *)
(* function and the inputs it was derived from.                            *)

RecordSize == 4096

\* message.as_bytes(): the text and its length in bytes
as_bytes(message) == [text |-> message, len |-> Len(message)]

\* The PublicKey that from_sec1_bytes decodes: the point the bytes denote.
\* Points are numbered: the points of subscribers below zero (the 65-byte
\* and the 33-byte p256dh values of the model denote different points),
\* the points of ephemeral keys by the draw of their scalar.
PointOf(bytes) == [point |-> 0 - bytes.len]

\* EphemeralSecret::random(&mut OsRng): draw number rng + 1
EphemeralSecret_random(rng) == [scalar |-> rng + 1]

\* EphemeralSecret::public_key
public_key(secret) == [point |-> secret.scalar]

\* EncodedPoint::from(&PublicKey).to_bytes(): the uncompressed encoding,
\* tag 0x04 and the two coordinates, of whatever encoding the key came in.
to_encoded_point(pubkey) == [len |-> 65, tag |-> 4, point |-> pubkey.point]

\* EphemeralSecret::diffie_hellman(..).raw_secret_bytes(): the x coordinate
\* of scalar * point, the same for (a, bG) and (b, aG).
diffie_hellman(secret, pubkey) == [len |-> 32, x |-> {secret.scalar, pubkey.point}]

\* Hkdf::<Sha256>::new(Some(salt), ikm) and Hkdf::expand into len bytes.
Hkdf_new(salt, ikm) == [salt |-> salt, ikm |-> ikm]

Hkdf_expand(hk, info, len) == [prk |-> hk, info |-> info, len |-> len]

\* Mutant: the salt is left as initialised, sixteen zero bytes.
fill_bytes_zero(rng) == [len |-> 16, random |-> 0]

\* rand::RngCore::fill_bytes(&mut OsRng, &mut salt): draw number rng + 1
fill_bytes(rng) == [len |-> 16, random |-> rng + 1]

\* Mutant: the message is sealed without the padding delimiter.
push_nothing(plaintext) ==
    [text |-> plaintext.text, last |-> 0, len |-> plaintext.len]

\* msg.push(0x02): the plaintext followed by the padding delimiter
push_delimiter(plaintext) ==
    [text |-> plaintext.text, last |-> 2, len |-> plaintext.len + 1]

\* Aes128Gcm::encrypt: the ciphertext of msg followed by the 16-byte tag
Aes128Gcm_encrypt(cek, nonce, msg) ==
    [key |-> cek, nonce |-> nonce, msg |-> msg, len |-> msg.len + 16]

\* Mutant: the record size is written little-endian.
to_le_bytes(n) ==
    <<n % 256, (n \div 256) % 256, (n \div 65536) % 256, (n \div 16777216) % 256>>

\* u32::to_be_bytes
to_be_bytes(n) ==
    <<(n \div 16777216) % 256, (n \div 65536) % 256, (n \div 256) % 256, n % 256>>

\* A run of bytes of the payload: what it holds and how many bytes it is.
Segment(bytes, len) == [bytes |-> bytes, len |-> len]

\* encrypt_payload.  Every fallible step of it succeeds for a decoded
\* public key and an auth secret of any length (HKDF expansions to 32, 16
\* and 12 bytes, a 16-byte AES key, one AES-GCM call), so the result is
\* Ok(payload); rng is the number of draws made from OsRng so far, and the
\* result's rng that number after the call.
encrypt_payload(plaintext, ua_pubkey, auth_secret, rng) ==
    LET server_secret == EphemeralSecret_random(rng)
        server_pubkey_bytes == to_encoded_point(public_key(server_secret))
        shared_bytes == diffie_hellman(server_secret, ua_pubkey)
        ua_pubkey_bytes == to_encoded_point(ua_pubkey)
        info == <<"WebPush: info", 0, ua_pubkey_bytes, server_pubkey_bytes>>
        ikm == Hkdf_expand(Hkdf_new(auth_secret, shared_bytes), info, 32)
        salt == fill_bytes(rng + 1)
        hk2 == Hkdf_new(salt, ikm)
        cek == Hkdf_expand(hk2, <<"Content-Encoding: aes128gcm", 0>>, 16)
        nonce_bytes == Hkdf_expand(hk2, <<"Content-Encoding: nonce", 0>>, 12)
        msg == push_delimiter(plaintext)
        ciphertext == Aes128Gcm_encrypt(cek, nonce_bytes, msg)
    IN  [ok |-> TRUE,
         rng |-> rng + 2,
         payload |-> << Segment(salt, salt.len),
                        Segment(to_be_bytes(RecordSize), 4),
                        Segment(server_pubkey_bytes.len % 256, 1),
                        Segment(server_pubkey_bytes, server_pubkey_bytes.len),
                        Segment(ciphertext, ciphertext.len) >>]

----------------------------------------------------------------------------
(* VAPID signer.  A JSON text is named by the object it serialises, a      *)
(* base64url string by the bytes it encodes, a signature by the key and    *)
(* the message it was made with.                                           *)

SecondsPerHour == 3600

\* serde_json::to_string
to_string(object) == [json |-> object]

\* URL_SAFE_NO_PAD.encode: the alphabet has no '.' and there is no padding
URL_SAFE_NO_PAD_encode(bytes) == B64(bytes)

\* Mutant: the signature is serialised as ASN.1 DER.
sign_der(signing_key, message) == [key |-> signing_key, msg |-> message, len |-> 70]

\* Mutant: the payload segment alone is signed.
sign_payload_only(signing_key, message) ==
    [key |-> signing_key, msg |-> <<message[2]>>, len |-> 64]

\* SigningKey::sign (ECDSA over P-256 with SHA-256, deterministic nonce)
\* and Signature::to_bytes: r and s, 32 bytes each.
sign(signing_key, message) == [key |-> signing_key, msg |-> message, len |-> 64]

\* format!("{header_b64}.{payload_b64}"): the segments a '.' separates
signing_input_of(header_b64, payload_b64) == <<header_b64, payload_b64>>

\* The string of no token.
NoJwt == <<>>

\* Mutant: the scalar is not range-checked.
build_vapid_jwt_unchecked(audience, subject, private_key_b64, utc_now) ==
    LET header_b64 == URL_SAFE_NO_PAD_encode(to_string([alg |-> "ES256"]))
        exp == utc_now + SecondsPerHour
        payload == [aud |-> audience, exp |-> exp, sub |-> subject]
        payload_b64 == URL_SAFE_NO_PAD_encode(to_string(payload))
        signing_input == signing_input_of(header_b64, payload_b64)
        priv == URL_SAFE_NO_PAD_decode(private_key_b64)
        sig_b64 == URL_SAFE_NO_PAD_encode(sign(priv.bytes, signing_input))
    IN  IF ~priv.ok
        THEN [tag |-> "err", err |-> "base64::DecodeError", jwt |-> NoJwt]
        ELSE IF priv.bytes.len # 32
        THEN [tag |-> "panic", err |-> "", jwt |-> NoJwt]
        ELSE [tag |-> "ok", err |-> "", jwt |-> Append(signing_input, sig_b64)]

\* build_vapid_jwt.  tag is "ok", "err" (an Err returned through `?`) or
\* "panic": the conversion of the decoded bytes into a 32-byte field
\* element (`priv_bytes.as_slice().into()`) asserts that the slice is 32
\* bytes long and panics otherwise.  The token is the sequence of the
\* segments its dots separate.
build_vapid_jwt(audience, subject, private_key_b64, utc_now) ==
    LET header_b64 == URL_SAFE_NO_PAD_encode(to_string([alg |-> "ES256"]))
        exp == utc_now + SecondsPerHour
        payload == [aud |-> audience, exp |-> exp, sub |-> subject]
        payload_b64 == URL_SAFE_NO_PAD_encode(to_string(payload))
        signing_input == signing_input_of(header_b64, payload_b64)
        priv == URL_SAFE_NO_PAD_decode(private_key_b64)
        sig_b64 == URL_SAFE_NO_PAD_encode(sign(priv.bytes, signing_input))
    IN  IF ~priv.ok
        THEN [tag |-> "err", err |-> "base64::DecodeError", jwt |-> NoJwt]
        ELSE IF priv.bytes.len # 32
        THEN [tag |-> "panic", err |-> "", jwt |-> NoJwt]
        ELSE IF ~priv.bytes.valid
        THEN [tag |-> "err", err |-> "Invalid VAPID private key", jwt |-> NoJwt]
        ELSE [tag |-> "ok", err |-> "", jwt |-> Append(signing_input, sig_b64)]

----------------------------------------------------------------------------
(* Push Dispatcher.                                                        *)

NoPayload == <<>>

NoAuthorization == [scheme |-> "", t |-> NoJwt, k |-> NotB64]

NoRequest == [method |-> "", url |-> NotUrl, authorization |-> NoAuthorization,
              content_type |-> "", content_encoding |-> "", ttl |-> "",
              urgency |-> "", body |-> NoPayload]

\* Mutant: the time to live is one hour.
ttl_header_hour == "3600"

\* .header("TTL", "43200")
ttl_header == "43200"

\* send_one up to the point where it awaits the POST (lines 56-78): the
\* steps run in source order and the first failing one ends the call.
\* tag "err": the call returned Err(result.err) without a request;
\* tag "panic": the call panicked; tag "post": the request was issued.
\* rng is the number of draws from OsRng after the call and encrypted the
\* payloads encrypt_payload produced in it, whether or not they were sent.
send_one(sub, message, vapid, utc_now, rng) ==
    LET p256dh_bytes == URL_SAFE_NO_PAD_decode(sub.p256dh)
        auth_bytes == URL_SAFE_NO_PAD_decode(sub.auth)
        payload == encrypt_payload(as_bytes(message), PointOf(p256dh_bytes.bytes),
                                   auth_bytes.bytes, rng)
        origin == extract_origin(sub.endpoint)
        jwt == build_vapid_jwt(origin.origin, vapid.subject,
                               vapid.private_key_b64, utc_now)
        early(msg) == [tag |-> "err", result |-> Err(msg), request |-> NoRequest,
                       rng |-> rng, encrypted |-> <<>>]
        late(tag, result, request) ==
            [tag |-> tag, result |-> result, request |-> request,
             rng |-> payload.rng, encrypted |-> <<payload.payload>>]
    IN  IF ~p256dh_bytes.ok THEN early("base64::DecodeError")
        ELSE IF ~auth_bytes.ok THEN early("base64::DecodeError")
        ELSE IF ~from_sec1_bytes(p256dh_bytes.bytes) THEN early("Invalid p256dh")
        ELSE IF ~payload.ok THEN early("encrypt_payload")
        ELSE IF ~origin.ok THEN late("err", Err(origin.err), NoRequest)
        ELSE IF jwt.tag = "err" THEN late("err", Err(jwt.err), NoRequest)
        ELSE IF jwt.tag = "panic" THEN late("panic", Ok, NoRequest)
        ELSE late("post", Ok,
                  [method |-> "POST", url |-> sub.endpoint,
                   content_type |-> "application/octet-stream",
                   content_encoding |-> "aes128gcm",
                   authorization |-> [scheme |-> "vapid", t |-> jwt.jwt,
                                      k |-> vapid.public_key_b64],
                   ttl |-> ttl_header, urgency |-> "high",
                   body |-> payload.payload])

\* Mutant: redirections count as success.
is_success_below_400(status) == 200 <= status /\ status < 400

\* StatusCode::is_success
is_success(status) == 200 <= status /\ status <= 299

\* reqwest::Client::builder().use_rustls_tls().build(): no timeout is set
\* and reqwest's default is none, so a request waits for its response for
\* as long as the connection stays open.
make_client == [tls |-> "rustls", timeout |-> "none"]

----------------------------------------------------------------------------
(* Inputs.                                                                 *)

Subscription(endpoint, p256dh, auth) ==
    [endpoint |-> endpoint, p256dh |-> p256dh, auth |-> auth]

\* Subscription records, one per endpoint (subscriptions.endpoint is UNIQUE).
SubGood == Subscription(EpFcm, P256dhUncompressed, AuthSecret)

SubGoodPort == Subscription(EpPort, P256dhUncompressed, AuthSecret)

SubCompressed == Subscription(EpDefaultPort, P256dhCompressed, AuthSecret)

SubLen64 ==
    Subscription(Url("https", "a.push.example", NoPort, "/64"), P256dhLen64, AuthSecret)

SubOffCurve ==
    Subscription(Url("https", "b.push.example", NoPort, "/off"), P256dhOffCurve, AuthSecret)

SubBadB64 ==
    Subscription(Url("https", "c.push.example", NoPort, "/b64"), NotB64, AuthSecret)

SubBadAuth ==
    Subscription(Url("https", "d.push.example", NoPort, "/auth"), P256dhLen64, NotB64)

SubNotUrl == Subscription(NotUrl, P256dhUncompressed, AuthSecret)

SubNoHost == Subscription(EpNoHost, P256dhUncompressed, AuthSecret)

AllSubs == {SubGood, SubGoodPort, SubCompressed, SubLen64, SubOffCurve,
            SubBadB64, SubBadAuth, SubNotUrl, SubNoHost}

\* The lists of at most n records of S with pairwise different endpoints.
SubLists(S, n) ==
    {l \in UNION {[1..k -> S] : k \in 0..n} :
        \A i, j \in 1..Len(l) : i # j => l[i].endpoint # l[j].endpoint}

\* What a push service does with a request: a response with a status and
\* a body whose text can or cannot be read, or a transport failure.
Response(status, body, readable) ==
    [transport |-> FALSE, status |-> status, body |-> body, readable |-> readable]

TransportFailure == [transport |-> TRUE, status |-> NoStatus, body |-> "", readable |-> FALSE]

NoAnswer == [transport |-> FALSE, status |-> NoStatus, body |-> "", readable |-> FALSE]

Responses == {Response(201, "", TRUE), Response(299, "ok", TRUE),
              Response(300, "", TRUE), Response(410, "gone", TRUE),
              Response(410, "gone", FALSE), Response(500, "", TRUE)}

----------------------------------------------------------------------------
(* State.                                                                  *)

VARIABLES
    config,            \* Config::from_env, read-only after startup
    subscriptions,     \* table subscriptions, in rowid order
    notification_log,  \* table notification_log: set of <<kind, sent_date>>
    radiator_setting,  \* table radiator_setting: the stored setting or NoSetting
    now,               \* local time, in hours since the start of day 0
    task,              \* per task: where it is in its code, and its locals
    send,              \* per task: its current (or last) send_all call
    delivered,         \* per task: the last "sent to x/y subscribers" it logged
    OsRng,             \* the number of values drawn from the OS random source
    encrypted,         \* the payloads encrypt_payload has produced, in order
    call,              \* the last call of a function of notify.rs made on its own,
                       \* or the last POST /radiator request and what its write gave
    ledger,            \* per endpoint: the last store operation that succeeded on
                       \* it, and the keys its record was created with
    sent               \* the <<kind, date>> of the notifications for which the
                       \* scheduler has called send_all ("Sending ..." in its log)

vars == <<config, subscriptions, notification_log, radiator_setting, now,
          task, send, delivered, OsRng, encrypted, call, ledger, sent>>

Tasks == {"scheduler", "test_summary", "subscribe"}

VapidConfig(c) ==
    [subject |-> c.vapid_subject, public_key_b64 |-> c.vapid_public_key,
     private_key_b64 |-> c.vapid_private_key]

\* Utc::now().timestamp()
Timestamp(t) == t * SecondsPerHour

\* No function has been called on its own.
NoCall == [fn |-> "", args |-> <<>>, rng |-> 0, result |-> <<>>]

IdleSend == [pc |-> "idle", subs |-> <<>>, message |-> "", i |-> 1,
             results |-> <<>>, posts |-> <<>>, answers |-> <<>>,
             request |-> NoRequest, client |-> make_client]

NoCount == [ok |-> -1, total |-> -1]

\* Option<f64>::None of get_radiator_setting
NoSetting == -1

----------------------------------------------------------------------------
(* send_all: the loop of lines 39-42 over the list, one send_one at a      *)
(* time.  posts[i] counts the requests issued for subs[i] in this call,    *)
(* answers[i] is what the push service did with the request (NoAnswer if   *)
(* none was issued).                                                       *)

send_all(subs, message) ==
    [pc |-> "loop", subs |-> subs, message |-> message, i |-> 1,
     results |-> <<>>, posts |-> [k \in 1..Len(subs) |-> 0], answers |-> <<>>,
     request |-> NoRequest, client |-> make_client]

\* results.push(r), then the next iteration
Push(c, r, answer) ==
    [c EXCEPT !.pc = "loop", !.i = c.i + 1, !.results = Append(c.results, r),
              !.answers = Append(c.answers, answer), !.request = NoRequest]

\* Mutant: the calls share one connection: a call that finds a request of
\* another task in flight fails with an error of its own.
SendOneShared(t) ==
    /\ send[t].pc = "loop"
    /\ send[t].i <= Len(send[t].subs)
    /\ IF \E u \in Tasks \ {t} : send[u].pc = "await"
       THEN /\ send' = [send EXCEPT ![t] = Push(send[t], Err("connection busy"), NoAnswer)]
            /\ UNCHANGED <<OsRng, encrypted, task>>
       ELSE /\ Len(encrypted) < MaxEncryptions
            /\ LET c == send[t]
                   r == send_one(c.subs[c.i], c.message, VapidConfig(config),
                                 Timestamp(now), OsRng)
               IN  /\ OsRng' = r.rng
                   /\ encrypted' = encrypted \o r.encrypted
                   /\ CASE r.tag = "err" ->
                            /\ send' = [send EXCEPT ![t] = Push(c, r.result, NoAnswer)]
                            /\ task' = task
                       [] r.tag = "panic" ->
                            /\ send' = [send EXCEPT ![t].pc = "panicked"]
                            /\ task' = [task EXCEPT ![t].pc = "panicked"]
                       [] r.tag = "post" ->
                            /\ send' = [send EXCEPT ![t].pc = "await",
                                                    ![t].request = r.request,
                                                    ![t].posts[c.i] = c.posts[c.i] + 1]
                            /\ task' = task
    /\ UNCHANGED <<config, subscriptions, notification_log, radiator_setting,
                   now, delivered, call, ledger, sent>>

\* The call of send_one for subs[i], up to its await of the POST.  A panic
\* unwinds send_all and ends the task that called it.
SendOne(t) ==
    /\ send[t].pc = "loop"
    /\ send[t].i <= Len(send[t].subs)
    /\ Len(encrypted) < MaxEncryptions
    /\ LET c == send[t]
           r == send_one(c.subs[c.i], c.message, VapidConfig(config),
                         Timestamp(now), OsRng)
       IN  /\ OsRng' = r.rng
           /\ encrypted' = encrypted \o r.encrypted
           /\ CASE r.tag = "err" ->
                    /\ send' = [send EXCEPT ![t] = Push(c, r.result, NoAnswer)]
                    /\ task' = task
               [] r.tag = "panic" ->
                    /\ send' = [send EXCEPT ![t].pc = "panicked"]
                    /\ task' = [task EXCEPT ![t].pc = "panicked"]
               [] r.tag = "post" ->
                    /\ send' = [send EXCEPT ![t].pc = "await",
                                            ![t].request = r.request,
                                            ![t].posts[c.i] = c.posts[c.i] + 1]
                    /\ task' = task
    /\ UNCHANGED <<config, subscriptions, notification_log, radiator_setting,
                   now, delivered, call, ledger, sent>>

\* resp.text().await.unwrap_or_default()
ResponseText(resp) == IF resp.readable THEN resp.body ELSE ""

\* Mutant: a 5xx answer is retried once more instead of being reported.
HttpResponseRetry(t) ==
    /\ send[t].pc = "await"
    /\ \E resp \in Responses :
         LET r == IF 200 <= resp.status /\ resp.status <= 299 THEN Ok
                  ELSE ErrRejected(resp.status, ResponseText(resp))
         IN  IF resp.status >= 500 /\ send[t].posts[send[t].i] < 2
             THEN send' = [send EXCEPT ![t].posts[send[t].i] = 2]
             ELSE send' = [send EXCEPT ![t] = Push(send[t], r, resp)]
    /\ UNCHANGED <<config, subscriptions, notification_log, radiator_setting,
                   now, task, delivered, OsRng, encrypted, call, ledger, sent>>

\* Mutant: a subscription whose endpoint answers 404 or 410 is deleted.
HttpResponsePrune(t) ==
    /\ send[t].pc = "await"
    /\ \E resp \in Responses :
         LET r == IF is_success(resp.status) THEN Ok
                  ELSE ErrRejected(resp.status, ResponseText(resp))
             gone == send[t].subs[send[t].i].endpoint
         IN  /\ send' = [send EXCEPT ![t] = Push(send[t], r, resp)]
             /\ subscriptions' =
                    IF resp.status \in {404, 410}
                    THEN SelectSeq(subscriptions, LAMBDA s : s.endpoint # gone)
                    ELSE subscriptions
    /\ UNCHANGED <<config, notification_log, radiator_setting,
                   now, task, delivered, OsRng, encrypted, call, ledger, sent>>

\* Lines 80-87: the response arrives.
HttpResponse(t) ==
    /\ send[t].pc = "await"
    /\ \E resp \in Responses :
         LET r == IF is_success(resp.status) THEN Ok
                  ELSE ErrRejected(resp.status, ResponseText(resp))
         IN  send' = [send EXCEPT ![t] = Push(send[t], r, resp)]
    /\ UNCHANGED <<config, subscriptions, notification_log, radiator_setting,
                   now, task, delivered, OsRng, encrypted, call, ledger, sent>>

\* Line 78: send().await fails (DNS, TLS, connection reset): `?` returns it.
HttpError(t) ==
    /\ send[t].pc = "await"
    /\ send' = [send EXCEPT ![t] = Push(send[t], Err("reqwest::Error"), TransportFailure)]
    /\ UNCHANGED <<config, subscriptions, notification_log, radiator_setting,
                   now, task, delivered, OsRng, encrypted, call, ledger, sent>>

\* Line 43: the loop is over, send_all returns results.
SendAllReturn(t) ==
    /\ send[t].pc = "loop"
    /\ send[t].i > Len(send[t].subs)
    /\ send' = [send EXCEPT ![t].pc = "returned"]
    /\ UNCHANGED <<config, subscriptions, notification_log, radiator_setting,
                   now, task, delivered, OsRng, encrypted, call, ledger, sent>>

\* results.iter().filter(|r| r.is_ok()).count(), subscriptions.len()
Count(results, subs) ==
    [ok |-> Cardinality({i \in 1..Len(results) : results[i].ok}), total |-> Len(subs)]

----------------------------------------------------------------------------
(* POST /push/test-summary.                                                *)

NoLocals == [today |-> 0, recommended_setting |-> 0, weighted_avg |-> 0,
             subs |-> <<>>, kind |-> ""]

IdleTask == [pc |-> "idle", locals |-> NoLocals, reply |-> "none"]

\* test_summary up to its call of send_all: build_daily_summary or
\* list_subscriptions may fail, and then the handler answers ok: false.
TestSummaryBegin ==
    /\ task["test_summary"].pc \in {"idle", "panicked"}
    /\ \E summary_ok, list_ok \in BOOLEAN :
         IF summary_ok /\ list_ok
         THEN /\ task' = [task EXCEPT !["test_summary"] =
                            [IdleTask EXCEPT !.pc = "send", !.locals.subs = subscriptions]]
              /\ send' = [send EXCEPT !["test_summary"] =
                            send_all(subscriptions, "daily summary")]
         ELSE /\ task' = [task EXCEPT !["test_summary"] =
                            [IdleTask EXCEPT !.reply = "ok: false"]]
              /\ send' = [send EXCEPT !["test_summary"] = IdleSend]
    /\ delivered' = [delivered EXCEPT !["test_summary"] = NoCount]
    /\ UNCHANGED <<config, subscriptions, notification_log, radiator_setting, now, OsRng, encrypted, call, ledger, sent>>

\* Lines 90-101: count the successes, log them, answer ok: true.
TestSummaryFinish ==
    /\ task["test_summary"].pc = "send"
    /\ send["test_summary"].pc = "returned"
    /\ delivered' = [delivered EXCEPT !["test_summary"] =
                       Count(send["test_summary"].results, task["test_summary"].locals.subs)]
    /\ task' = [task EXCEPT !["test_summary"] = [IdleTask EXCEPT !.reply = "ok: true"]]
    /\ send' = [send EXCEPT !["test_summary"] = IdleSend]
    /\ UNCHANGED <<config, subscriptions, notification_log, radiator_setting, now, OsRng, encrypted, call, ledger, sent>>

----------------------------------------------------------------------------
(* POST /push/subscribe and POST /push/unsubscribe.                        *)

\* Db::insert_subscription: INSERT OR REPLACE deletes the row that holds
\* the endpoint, if there is one, and inserts the new row after the others.
insert_subscription(endpoint, p256dh, auth) ==
    Append(SelectSeq(subscriptions, LAMBDA s : s.endpoint # endpoint),
           Subscription(endpoint, p256dh, auth))

\* Db::delete_subscription: DELETE ... WHERE endpoint = ?
delete_subscription(endpoint) ==
    SelectSeq(subscriptions, LAMBDA s : s.endpoint # endpoint)

\* send_one_sub: one send_one call with a client of its own.
send_one_sub(sub, message) == send_all(<<sub>>, message)

\* The bodies of subscribe requests: two browsers, and the first of them
\* again after its keys were renewed.
SubGoodRenewed == Subscription(EpFcm, P256dhCompressed, AuthSecret)

SubscribeRequests == {SubGood, SubGoodRenewed, SubGoodPort}

UnsubscribeRequests == {EpFcm, EpPort}

\* What the ledger holds for an endpoint no store operation has touched,
\* for one whose record was created with the keys of sub, and for one whose
\* record was deleted.
Untouched == [op |-> "none", p256dh |-> NotB64, auth |-> NotB64]

Created(sub) == [op |-> "subscribe", p256dh |-> sub.p256dh, auth |-> sub.auth]

Deleted == [op |-> "unsubscribe", p256dh |-> NotB64, auth |-> NotB64]

KnownEndpoints == {s.endpoint : s \in AllSubs \cup SubscribeRequests}

HasRecord(subs, endpoint) == \E i \in 1..Len(subs) : subs[i].endpoint = endpoint

RecordOf(subs, endpoint) ==
    subs[CHOOSE i \in 1..Len(subs) : subs[i].endpoint = endpoint]

\* The ledger of a store whose records were each created by one subscribe.
LedgerOf(subs) ==
    [e \in KnownEndpoints |->
        IF HasRecord(subs, e) THEN Created(RecordOf(subs, e)) ELSE Untouched]

\* subscribe, lines 33-55: the row is written, then the welcome message is
\* sent to the new subscription; a failing insert answers ok: false.
SubscribeBegin ==
    /\ task["subscribe"].pc \in {"idle", "panicked"}
    /\ \E body \in SubscribeRequests, insert_ok \in BOOLEAN :
         IF insert_ok
         THEN /\ subscriptions' =
                    insert_subscription(body.endpoint, body.p256dh, body.auth)
              /\ ledger' = [ledger EXCEPT ![body.endpoint] =
                              IF HasRecord(subscriptions, body.endpoint)
                              THEN [@ EXCEPT !.op = "subscribe"]
                              ELSE Created(body)]
              /\ task' = [task EXCEPT !["subscribe"] =
                            [IdleTask EXCEPT !.pc = "send", !.locals.subs = <<body>>]]
              /\ send' = [send EXCEPT !["subscribe"] =
                            send_one_sub(body, "Notifications enabled!")]
         ELSE /\ task' = [task EXCEPT !["subscribe"] =
                            [IdleTask EXCEPT !.reply = "ok: false"]]
              /\ send' = [send EXCEPT !["subscribe"] = IdleSend]
              /\ UNCHANGED <<subscriptions, ledger>>
    /\ UNCHANGED <<config, notification_log, radiator_setting, now, delivered,
                   OsRng, encrypted, call, sent>>

\* subscribe, lines 55-60: send_one_sub returned; its result is dropped
\* and the handler answers ok: true.
SubscribeFinish ==
    /\ task["subscribe"].pc = "send"
    /\ send["subscribe"].pc = "loop"
    /\ send["subscribe"].i > Len(send["subscribe"].subs)
    /\ task' = [task EXCEPT !["subscribe"] = [IdleTask EXCEPT !.reply = "ok: true"]]
    /\ send' = [send EXCEPT !["subscribe"] = IdleSend]
    /\ UNCHANGED <<config, subscriptions, notification_log, radiator_setting,
                   now, delivered, OsRng, encrypted, call, ledger, sent>>

\* unsubscribe: the row of the endpoint, if any, is deleted; a failing
\* DELETE changes nothing and answers ok: false.
Unsubscribe ==
    /\ \E endpoint \in UnsubscribeRequests, delete_ok \in BOOLEAN :
         IF delete_ok
         THEN /\ subscriptions' = delete_subscription(endpoint)
              /\ ledger' = [ledger EXCEPT ![endpoint] = Deleted]
         ELSE UNCHANGED <<subscriptions, ledger>>
    /\ UNCHANGED <<config, notification_log, radiator_setting, now, task, send,
                   delivered, OsRng, encrypted, call, sent>>

----------------------------------------------------------------------------
(* The scheduler: spawn's loop around run_check.  Temperatures and         *)
(* radiator settings are in tenths (3.5 is 35).                            *)

HoursPerDay == 24

\* Last hour the model lets the clock reach.
MaxHour == 9

NaN == 9999

\* f64::INFINITY
Infinity == 9998

is_finite(x) == x # NaN

\* temp_to_radiator_setting
temp_to_radiator_setting(temp_c) ==
    IF ~is_finite(temp_c) THEN NaN
    ELSE IF temp_c < 50 THEN 35
    ELSE IF temp_c < 150 THEN 20
    ELSE 0

\* ForecastPoint::weighted_avg_temperature over the fetched forecast: NaN
\* for a forecast without finite temperatures, else their weighted mean.
WeightedAvgs == {NaN, 49, 50, 150}

\* date_naive() and hour() of the local time
DateOf(t) == t \div HoursPerDay

HourOf(t) == t % HoursPerDay

Abs(x) == IF x < 0 THEN -x ELSE x

\* f64::round on a setting in tenths: half away from zero, in units
Round(x) == (x + 5) \div 10

\* format!("radiator_{:.1}", recommended_setting.round())
RadiatorKey(recommended_setting) ==
    CASE Round(recommended_setting) = 0 -> "radiator_0.0"
      [] Round(recommended_setting) = 2 -> "radiator_2.0"
      [] Round(recommended_setting) = 4 -> "radiator_4.0"
      [] OTHER -> "radiator_other"

\* Db::already_notified
already_notified(kind, date) == <<kind, date>> \in notification_log

\* Db::log_notification: INSERT OR IGNORE
log_notification(kind, date) == notification_log \cup {<<kind, date>>}

\* Lines 13-17 and 27-31: run_check returned Ok; the loop computes the next
\* run and sleeps.
Asleep == [pc |-> "sleep", locals |-> NoLocals, reply |-> "none"]

\* Lines 15-17: run_check returned Err, which the loop logs before it
\* sleeps.
Failed == [pc |-> "sleep", locals |-> NoLocals, reply |-> "Scheduler error"]

\* Lines 279-310, from the radiator check to its call of send_all or to
\* the end of run_check.  db_ok: the queries of this stretch succeed.
RadiatorCheck(l, db_ok) ==
    LET diff == IF radiator_setting # NoSetting
                THEN Abs(l.recommended_setting - radiator_setting)
                ELSE Infinity
        key == RadiatorKey(l.recommended_setting)
    IN  IF ~is_finite(l.recommended_setting)
        THEN /\ task' = [task EXCEPT !["scheduler"] = Asleep]
             /\ send' = [send EXCEPT !["scheduler"] = IdleSend]
             /\ sent' = sent
        ELSE IF ~db_ok
        THEN /\ task' = [task EXCEPT !["scheduler"] = Failed]
             /\ send' = [send EXCEPT !["scheduler"] = IdleSend]
             /\ sent' = sent
        ELSE IF diff >= 5 /\ ~already_notified(key, l.today)
        THEN /\ task' = [task EXCEPT !["scheduler"] =
                           [pc |-> "radiator_send", reply |-> "none",
                            locals |-> [l EXCEPT !.kind = key]]]
             /\ send' = [send EXCEPT !["scheduler"] = send_all(l.subs, "radiator")]
             /\ sent' = sent \cup {<<key, l.today>>}
        ELSE /\ task' = [task EXCEPT !["scheduler"] = Asleep]
             /\ send' = [send EXCEPT !["scheduler"] = IdleSend]
             /\ sent' = sent

\* run_check from its start (lines 185-277) to its first call of send_all
\* or to its end.  The forecast fetch fails (run_check returns Ok) or
\* yields a weighted average; a failing query or a failing
\* build_daily_summary returns Err.
SchedRunCheck ==
    /\ task["scheduler"].pc = "run"
    /\ \E forecast_ok, db_ok, summary_ok \in BOOLEAN, weighted_avg \in WeightedAvgs :
         LET l == [today |-> DateOf(now),
                   recommended_setting |-> temp_to_radiator_setting(weighted_avg),
                   weighted_avg |-> weighted_avg,
                   subs |-> subscriptions, kind |-> ""]
         IN  IF ~forecast_ok
             THEN /\ task' = [task EXCEPT !["scheduler"] = Asleep]
                  /\ send' = [send EXCEPT !["scheduler"] = IdleSend]
                  /\ sent' = sent
             ELSE IF ~db_ok
             THEN /\ task' = [task EXCEPT !["scheduler"] = Failed]
                  /\ send' = [send EXCEPT !["scheduler"] = IdleSend]
                  /\ sent' = sent
             ELSE IF HourOf(now) = config.summary_hour
                     /\ ~already_notified("daily_summary", l.today)
             THEN IF summary_ok
                  THEN /\ task' = [task EXCEPT !["scheduler"] =
                                     [pc |-> "summary_send", reply |-> "none",
                                      locals |-> [l EXCEPT !.kind = "daily_summary"]]]
                       /\ send' = [send EXCEPT !["scheduler"] =
                                     send_all(l.subs, "daily summary")]
                       /\ sent' = sent \cup {<<"daily_summary", l.today>>}
                  ELSE /\ task' = [task EXCEPT !["scheduler"] = Failed]
                       /\ send' = [send EXCEPT !["scheduler"] = IdleSend]
                       /\ sent' = sent
             ELSE RadiatorCheck(l, TRUE)
    /\ delivered' = [delivered EXCEPT !["scheduler"] = NoCount]
    /\ UNCHANGED <<config, subscriptions, notification_log, radiator_setting,
                   now, OsRng, encrypted, call, ledger>>

\* Lines 268-277, then 279-310: the summary's send_all returned; count,
\* log the count, record the notification, go on to the radiator check.
SchedSummarySent ==
    /\ task["scheduler"].pc = "summary_send"
    /\ send["scheduler"].pc = "returned"
    /\ delivered' = [delivered EXCEPT !["scheduler"] =
                       Count(send["scheduler"].results, task["scheduler"].locals.subs)]
    /\ \E log_ok, db_ok \in BOOLEAN :
         IF log_ok
         THEN /\ notification_log' =
                    log_notification("daily_summary", task["scheduler"].locals.today)
              /\ RadiatorCheck(task["scheduler"].locals, db_ok)
         ELSE /\ notification_log' = notification_log
              /\ task' = [task EXCEPT !["scheduler"] = Failed]
              /\ send' = [send EXCEPT !["scheduler"] = IdleSend]
              /\ sent' = sent
    /\ UNCHANGED <<config, subscriptions, radiator_setting, now, OsRng,
                   encrypted, call, ledger>>

\* Lines 300-312: the radiator notification's send_all returned.
SchedRadiatorSent ==
    /\ task["scheduler"].pc = "radiator_send"
    /\ send["scheduler"].pc = "returned"
    /\ delivered' = [delivered EXCEPT !["scheduler"] =
                       Count(send["scheduler"].results, task["scheduler"].locals.subs)]
    /\ \E log_ok \in BOOLEAN :
         IF log_ok
         THEN /\ notification_log' =
                    log_notification(task["scheduler"].locals.kind,
                                     task["scheduler"].locals.today)
              /\ task' = [task EXCEPT !["scheduler"] = Asleep]
         ELSE /\ notification_log' = notification_log
              /\ task' = [task EXCEPT !["scheduler"] = Failed]
    /\ send' = [send EXCEPT !["scheduler"] = IdleSend]
    /\ UNCHANGED <<config, subscriptions, radiator_setting, now, OsRng,
                   encrypted, call, ledger, sent>>

\* Lines 18-31: sleep until two minutes past the next hour, then loop.
SchedWake ==
    /\ task["scheduler"].pc = "sleep"
    /\ HourOf(now) < MaxHour
    /\ now' = now + 1
    /\ task' = [task EXCEPT !["scheduler"] = [IdleTask EXCEPT !.pc = "run"]]
    /\ UNCHANGED <<config, subscriptions, notification_log, radiator_setting,
                   send, delivered, OsRng, encrypted, call, ledger, sent>>

\* POST /radiator.  A form field is modelled by its text, by whether
\* str::parse::<f64> accepts the text and by the f64 it yields, in
\* hundredths (2.75 is 275); the stored setting is in tenths.
NoField == [present |-> FALSE, text |-> "", parses |-> FALSE, value |-> 0]

Field(text, parses, value) ==
    [present |-> TRUE, text |-> text, parses |-> parses, value |-> value]

\* form.get("radiator").and_then(|v| v.parse::<f64>().ok())
parse_f64(form) ==
    IF form.present /\ form.parses
    THEN [some |-> TRUE, val |-> form.value]
    ELSE [some |-> FALSE, val |-> 0]

\* f64 >=: false when the left side is NaN, true for +inf against a
\* finite bound, false for -inf.
ge_f64(x, bound) == x # NaN /\ x >= bound

\* Mutant: the number is stored as it was submitted.
clamp_setting_unclamped(val) == IF val = NaN THEN 0 ELSE val \div 10

\* Lines 297-303: the setting the handler stores for a parsed number.
clamp_setting(val) ==
    IF ge_f64(val, 275) THEN 35
    ELSE IF ge_f64(val, 100) THEN 20
    ELSE 0

\* The radiator fields of the requests: none, texts that are no number,
\* numbers at and around the two thresholds, and the special values that
\* parse::<f64> accepts.
Forms ==
    {NoField, Field("", FALSE, 0), Field("high", FALSE, 0), Field("3,5", FALSE, 0),
     Field("3.5", TRUE, 350), Field("2.75", TRUE, 275), Field("2.74", TRUE, 274),
     Field("2", TRUE, 200), Field("1.0", TRUE, 100), Field("0.99", TRUE, 99),
     Field("0", TRUE, 0), Field("-3.5", TRUE, -350), Field("99.9", TRUE, 9990),
     Field("NaN", TRUE, NaN), Field("inf", TRUE, Infinity),
     Field("-inf", TRUE, 0 - Infinity)}

\* radiator_handler: the parsed number is mapped to a setting and stored
\* with Db::set_radiator_setting (an upsert of the one row), whose result
\* is dropped; every request is answered with a redirect.
RadiatorPost ==
    /\ \E form \in Forms, write_ok \in BOOLEAN :
         LET parsed == parse_f64(form)
         IN  IF parsed.some
             THEN /\ radiator_setting' =
                        IF write_ok THEN clamp_setting(parsed.val) ELSE radiator_setting
                  /\ call' = [fn |-> "radiator_handler", args |-> <<form>>,
                              rng |-> OsRng, result |-> <<write_ok>>]
             ELSE /\ radiator_setting' = radiator_setting
                  /\ call' = [fn |-> "radiator_handler", args |-> <<form>>,
                              rng |-> OsRng, result |-> <<>>]
    /\ UNCHANGED <<config, subscriptions, notification_log, now, task, send,
                   delivered, OsRng, encrypted, ledger, sent>>

\* Last date the model lets the clock reach.
MaxDate == 1

\* For how many hours the process stays down before it is started again.
Downtimes == {0, 1, HoursPerDay}

\* The process stops at any point (a kill, a crash, a reboot) and is started
\* again: main spawns the scheduler, whose loop begins with run_check, and
\* serves requests.  The tables and the configuration are as they were;
\* the tasks of the old process and their calls are gone.
Restart ==
    /\ \E downtime \in Downtimes :
         /\ DateOf(now + downtime) <= MaxDate
         /\ HourOf(now + downtime) <= MaxHour
         /\ now' = now + downtime
    /\ task' = [t \in Tasks |-> IF t = "scheduler" THEN [IdleTask EXCEPT !.pc = "run"]
                                 ELSE IdleTask]
    /\ send' = [t \in Tasks |-> IdleSend]
    /\ delivered' = [t \in Tasks |-> NoCount]
    /\ UNCHANGED <<config, subscriptions, notification_log, radiator_setting,
                   OsRng, encrypted, call, ledger, sent>>

----------------------------------------------------------------------------
(* Specifications.                                                         *)

Configs ==
    [vapid_subject : {"mailto:security@veetik.com"},
     vapid_public_key : {B64(Bytes(65, 4, TRUE))},
     vapid_private_key : PrivKeys,
     summary_hour : {7}]

\* The dispatcher under every subscription list and VAPID identity: the
\* server answers test-summary requests while the scheduler sleeps.
SendInit ==
    /\ config \in Configs
    /\ subscriptions \in SubLists(AllSubs, MaxSubs)
    /\ notification_log = {}
    /\ radiator_setting = NoSetting
    /\ now = 0
    /\ task = [t \in Tasks |-> IdleTask]
    /\ send = [t \in Tasks |-> IdleSend]
    /\ delivered = [t \in Tasks |-> NoCount]
    /\ OsRng = 0
    /\ encrypted = <<>>
    /\ call = NoCall
    /\ ledger = LedgerOf(subscriptions)
    /\ sent = {}

SendNext ==
    \/ TestSummaryBegin
    \/ SendOne("test_summary")
    \/ HttpResponse("test_summary")
    \/ HttpError("test_summary")
    \/ SendAllReturn("test_summary")
    \/ TestSummaryFinish

SendSpec == SendInit /\ [][SendNext]_vars

\* The server after startup: the scheduler loops, and test-summary
\* requests are served beside it.
SchedSubs == {SubGood, SubLen64}

\* The hours at which the model starts the process.
StartHours == {6}

Init ==
    /\ config \in Configs
    /\ subscriptions \in SubLists(SchedSubs, MaxSubs)
    /\ notification_log = {}
    /\ radiator_setting \in {NoSetting, 20}
    /\ now \in StartHours
    /\ task = [t \in Tasks |-> IF t = "scheduler" THEN [IdleTask EXCEPT !.pc = "run"]
                                ELSE IdleTask]
    /\ send = [t \in Tasks |-> IdleSend]
    /\ delivered = [t \in Tasks |-> NoCount]
    /\ OsRng = 0
    /\ encrypted = <<>>
    /\ call = NoCall
    /\ ledger = LedgerOf(subscriptions)
    /\ sent = {}

Next ==
    \/ SchedRunCheck
    \/ SchedSummarySent
    \/ SchedRadiatorSent
    \/ SchedWake
    \/ TestSummaryBegin
    \/ TestSummaryFinish
    \/ \E t \in Tasks :
         \/ SendOne(t)
         \/ HttpResponse(t)
         \/ HttpError(t)
         \/ SendAllReturn(t)

Spec == Init /\ [][Next]_vars

\* The server's push API on a fresh database: subscribe, unsubscribe and
\* test-summary requests, served while the scheduler sleeps.
ApiInit ==
    /\ config \in {c \in Configs : c.vapid_private_key \in {PrivValid, PrivEmpty}}
    /\ subscriptions = <<>>
    /\ notification_log = {}
    /\ radiator_setting = NoSetting
    /\ now = 0
    /\ task = [t \in Tasks |-> IdleTask]
    /\ send = [t \in Tasks |-> IdleSend]
    /\ delivered = [t \in Tasks |-> NoCount]
    /\ OsRng = 0
    /\ encrypted = <<>>
    /\ call = NoCall
    /\ ledger = LedgerOf(subscriptions)
    /\ sent = {}

ApiNext ==
    \/ SubscribeBegin
    \/ SubscribeFinish
    \/ Unsubscribe
    \/ TestSummaryBegin
    \/ TestSummaryFinish
    \/ SendAllReturn("test_summary")
    \/ \E t \in {"subscribe", "test_summary"} :
         \/ SendOne(t)
         \/ HttpResponse(t)
         \/ HttpError(t)

ApiSpec == ApiInit /\ [][ApiNext]_vars

\* Time passes while a task is suspended in an await.
Tick ==
    /\ now < MaxHour
    /\ now' = now + 1
    /\ UNCHANGED <<config, subscriptions, notification_log, radiator_setting,
                   task, send, delivered, OsRng, encrypted, call, ledger, sent>>

\* The dispatcher over time: batches over push services of different
\* origins, signed with a valid VAPID key, while the clock advances.
TimedSubs == {SubGood, SubGoodPort, SubCompressed}

TimedInit ==
    /\ SendInit
    /\ config.vapid_private_key = PrivValid
    /\ \A i \in 1..Len(subscriptions) : subscriptions[i] \in TimedSubs

TimedNext ==
    \/ SendNext
    \/ Tick

TimedSendSpec == TimedInit /\ [][TimedNext]_vars

\* The dispatcher with the scheduling the runtime guarantees: a task that
\* can take a step of its own code takes it.  Whether and when a push
\* service answers is up to the push service.
FairSendSpec ==
    /\ SendSpec
    /\ WF_vars(SendOne("test_summary"))
    /\ WF_vars(SendAllReturn("test_summary"))
    /\ WF_vars(TestSummaryFinish)

\* The three callers of the dispatcher at once: the scheduler starts its
\* run of the summary hour (the summary, then the radiator notification)
\* at the moment when a subscribe request has stored its subscription and
\* a test-summary request has read the table, each about to send.
ConcurrentSubs == {SubLen64}

ConcurrentInit ==
    /\ config \in {c \in Configs : c.vapid_private_key \in {PrivValid, PrivEmpty}}
    /\ \E before \in SubLists(ConcurrentSubs, MaxSubs) :
         subscriptions = Append(before, SubGoodPort)
    /\ notification_log = {}
    /\ radiator_setting = NoSetting
    /\ now = config.summary_hour
    /\ task = [t \in Tasks |->
                 CASE t = "scheduler" -> [IdleTask EXCEPT !.pc = "run"]
                   [] t = "subscribe" ->
                        [IdleTask EXCEPT !.pc = "send", !.locals.subs = <<SubGoodPort>>]
                   [] t = "test_summary" ->
                        [IdleTask EXCEPT !.pc = "send", !.locals.subs = subscriptions]]
    /\ send = [t \in Tasks |->
                 CASE t = "scheduler" -> IdleSend
                   [] t = "subscribe" -> send_one_sub(SubGoodPort, "Notifications enabled!")
                   [] t = "test_summary" -> send_all(subscriptions, "daily summary")]
    /\ delivered = [t \in Tasks |-> NoCount]
    /\ OsRng = 0
    /\ encrypted = <<>>
    /\ call = NoCall
    /\ ledger = LedgerOf(subscriptions)
    /\ sent = {}

ConcurrentNext ==
    \/ SchedRunCheck
    \/ SchedSummarySent
    \/ SchedRadiatorSent
    \/ TestSummaryFinish
    \/ SubscribeFinish
    \/ \E t \in Tasks :
         \/ SendOne(t)
         \/ HttpResponse(t)
         \/ HttpError(t)
    \/ \E t \in {"scheduler", "test_summary"} : SendAllReturn(t)

ConcurrentSpec == ConcurrentInit /\ [][ConcurrentNext]_vars

\* The dashboard's radiator form beside the scheduler, with no push
\* subscriber stored: requests arrive between and during the hourly runs.
RadiatorInit ==
    /\ config \in {c \in Configs : c.vapid_private_key = PrivValid}
    /\ subscriptions = <<>>
    /\ notification_log = {}
    /\ radiator_setting = NoSetting
    /\ now \in StartHours
    /\ task = [t \in Tasks |-> IF t = "scheduler" THEN [IdleTask EXCEPT !.pc = "run"]
                                ELSE IdleTask]
    /\ send = [t \in Tasks |-> IdleSend]
    /\ delivered = [t \in Tasks |-> NoCount]
    /\ OsRng = 0
    /\ encrypted = <<>>
    /\ call = NoCall
    /\ ledger = LedgerOf(subscriptions)
    /\ sent = {}

RadiatorNext ==
    \/ RadiatorPost
    \/ SchedRunCheck
    \/ SchedSummarySent
    \/ SchedRadiatorSent
    \/ SchedWake
    \/ SendAllReturn("scheduler")

RadiatorSpec == RadiatorInit /\ [][RadiatorNext]_vars

\* The scheduler over two dates: hourly runs, and restarts of the process
\* at any point of a run; the radiator is set to 2.0.
DaysSubs == {<<>>, <<SubGood>>}

DaysInit ==
    /\ config \in {c \in Configs : c.vapid_private_key = PrivValid}
    /\ subscriptions \in DaysSubs
    /\ notification_log = {}
    /\ radiator_setting = 20
    /\ now \in StartHours
    /\ task = [t \in Tasks |-> IF t = "scheduler" THEN [IdleTask EXCEPT !.pc = "run"]
                                ELSE IdleTask]
    /\ send = [t \in Tasks |-> IdleSend]
    /\ delivered = [t \in Tasks |-> NoCount]
    /\ OsRng = 0
    /\ encrypted = <<>>
    /\ call = NoCall
    /\ ledger = LedgerOf(subscriptions)
    /\ sent = {}

DaysNext ==
    \/ SchedRunCheck
    \/ SchedSummarySent
    \/ SchedRadiatorSent
    \/ SchedWake
    \/ Restart
    \/ SendOne("scheduler")
    \/ HttpResponse("scheduler")
    \/ HttpError("scheduler")
    \/ SendAllReturn("scheduler")

DaysSpec == DaysInit /\ [][DaysNext]_vars

----------------------------------------------------------------------------
(* The functions of notify.rs called on their own, on inputs drawn from    *)
(* their domains: encrypt_payload on plaintexts from empty to longer than  *)
(* a record, build_vapid_jwt on audiences, subjects and private keys,      *)
(* extract_origin on endpoint strings.                                     *)

Plaintext(text, len) == [text |-> text, len |-> len]

\* The largest plaintext that, with its delimiter and the 16-byte tag,
\* fits a record of RecordSize bytes.
MaxRecordPlaintext == RecordSize - 17

Plaintexts ==
    {Plaintext("", 0), as_bytes("Notifications enabled!"),
     Plaintext("a summary that fills the record", MaxRecordPlaintext),
     Plaintext("a summary longer than the record", MaxRecordPlaintext + 1)}

\* The arguments of encrypt_payload: every plaintext for a subscriber whose
\* key came uncompressed, and one for a subscriber whose key came compressed
\* and whose auth secret is 12 bytes long.
EncryptInputs ==
    {<<plaintext, PointOf(P256dhUncompressed.bytes), AuthSecret.bytes>> :
        plaintext \in Plaintexts}
    \cup {<<as_bytes("Notifications enabled!"), PointOf(P256dhCompressed.bytes),
            Bytes(12, 0, TRUE)>>}

PrivOther == B64(Bytes(32, 1, TRUE))

Endpoints ==
    {EpFcm, EpPort, EpDefaultPort, EpNoHost, NotUrl,
     Url("http", "push.local", 80, "/p?topic=a#top"),
     Url("http", "push.local", 443, "/p?topic=a#top"),
     Url("wss", "[2001:db8::1]", 443, "")}

Subjects == {"mailto:security@veetik.com", "https://weather.example/contact"}

CallEncryptPayload ==
    /\ Len(encrypted) < MaxEncryptions
    /\ \E args \in EncryptInputs :
         LET r == encrypt_payload(args[1], args[2], args[3], OsRng)
         IN  /\ call' = [fn |-> "encrypt_payload", args |-> args,
                         rng |-> OsRng, result |-> r]
             /\ OsRng' = r.rng
             /\ encrypted' = Append(encrypted, r.payload)
    /\ UNCHANGED <<config, subscriptions, notification_log, radiator_setting,
                   now, task, send, delivered, ledger, sent>>

\* build_vapid_jwt reads the clock: the call is made now or at the last hour.
CallBuildVapidJwt ==
    /\ \E t \in {now, MaxHour}, endpoint \in {EpFcm, EpPort}, subject \in Subjects,
          private_key_b64 \in PrivKeys \cup {PrivOther} :
         /\ now' = t
         /\ call' = [fn |-> "build_vapid_jwt",
                     args |-> <<extract_origin(endpoint).origin, subject,
                                private_key_b64, Timestamp(t)>>,
                     rng |-> OsRng,
                     result |-> build_vapid_jwt(extract_origin(endpoint).origin, subject,
                                                private_key_b64, Timestamp(t))]
    /\ UNCHANGED <<config, subscriptions, notification_log, radiator_setting,
                   task, send, delivered, OsRng, encrypted, ledger, sent>>

CallExtractOrigin ==
    /\ \E endpoint \in Endpoints :
         call' = [fn |-> "extract_origin", args |-> <<endpoint>>, rng |-> OsRng,
                  result |-> extract_origin(endpoint)]
    /\ UNCHANGED <<config, subscriptions, notification_log, radiator_setting,
                   now, task, send, delivered, OsRng, encrypted, ledger, sent>>

UnitInit ==
    /\ config \in {c \in Configs : c.vapid_private_key = PrivValid}
    /\ subscriptions = <<>>
    /\ notification_log = {}
    /\ radiator_setting = NoSetting
    /\ now = 0
    /\ task = [t \in Tasks |-> IdleTask]
    /\ send = [t \in Tasks |-> IdleSend]
    /\ delivered = [t \in Tasks |-> NoCount]
    /\ OsRng = 0
    /\ encrypted = <<>>
    /\ call = NoCall
    /\ ledger = LedgerOf(subscriptions)
    /\ sent = {}

UnitNext ==
    \/ CallEncryptPayload
    \/ CallBuildVapidJwt
    \/ CallExtractOrigin

UnitSpec == UnitInit /\ [][UnitNext]_vars

----------------------------------------------------------------------------
(* Properties.                                                             *)

\* The send_one calls of a send_all call that have ended with a result.
Ended(c) == 1..Len(c.results)

\* A call of send_all is over: it returned or it panicked.
Over(c) == c.pc \in {"returned", "panicked"}

Is2xx(answer) ==
    /\ ~answer.transport
    /\ answer.status \in 200..299

IsNon2xx(answer) ==
    /\ ~answer.transport
    /\ answer.status # NoStatus
    /\ answer.status \notin 200..299

\* The errors that report bad key material.
InvalidKeyErrors ==
    {"base64::DecodeError", "Invalid p256dh", "Invalid VAPID private key"}

\* The result the steps of send_one give for subscriber sub, whose request
\* (if one was issued) was answered by answer.
Outcome(sub, answer) ==
    IF answer.transport THEN Err("reqwest::Error")
    ELSE IF Is2xx(answer) THEN Ok
    ELSE IF IsNon2xx(answer)
    THEN ErrRejected(answer.status, IF answer.readable THEN answer.body ELSE "")
    ELSE send_one(sub, "", VapidConfig(config), 0, 0).result

\* C1: send_all never fails as a whole: for every list and every
\* combination of outcomes it returns, and what it returns is one result
\* per subscription, result i being the outcome of send_one for S[i].
C1_SendAllReturnsEveryOutcome ==
    \A t \in Tasks :
        /\ send[t].pc # "panicked"
        /\ send[t].pc = "returned" =>
             /\ Len(send[t].results) = Len(send[t].subs)
             /\ \A k \in Ended(send[t]) :
                  send[t].results[k] = Outcome(send[t].subs[k], send[t].answers[k])

\* C2: batch isolation: when a send_all call is over, send_one has been
\* attempted for every subscriber of the batch whatever failed for the
\* others, and a subscriber whose p256dh is malformed has an InvalidKey
\* result.
C2_BatchIsolation ==
    \A t \in Tasks :
        Over(send[t]) =>
            /\ Len(send[t].results) = Len(send[t].subs)
            /\ \A k \in Ended(send[t]) :
                 send[t].subs[k].p256dh \in {P256dhLen64, P256dhOffCurve} =>
                     send[t].results[k].err \in InvalidKeyErrors

\* The steps that precede the POST succeed for sub under the configured
\* VAPID identity, read off the inputs: both keys are base64url, p256dh is
\* a SEC1 encoding (65 bytes uncompressed, 33 bytes compressed or compact)
\* of a curve point, the endpoint parses and has a host, and the private key
\* is a 32-byte scalar in range.
StepsSucceed(sub) ==
    /\ sub.p256dh.b64
    /\ sub.auth.b64
    /\ sub.p256dh.bytes.valid
    /\ <<sub.p256dh.bytes.tag, sub.p256dh.bytes.len>> \in {<<4, 65>>, <<2, 33>>, <<3, 33>>, <<5, 33>>}
    /\ sub.endpoint.parses
    /\ sub.endpoint.host # NoHost
    /\ config.vapid_private_key = PrivValid

RECURSIVE PostsTo(_, _, _)
PostsTo(c, endpoint, n) ==
    IF n = 0 THEN 0
    ELSE PostsTo(c, endpoint, n - 1)
         + (IF c.subs[n].endpoint = endpoint THEN c.posts[n] ELSE 0)


\* C4: no retry at the dispatcher layer: once the request for a subscriber
\* has been answered with a non-2xx status or has failed in transport, the
\* call has issued one request to that subscriber's endpoint and issues no
\* further one; the failure is the subscriber's result.
C4_NoRetry ==
    \A t \in Tasks : \A k \in Ended(send[t]) :
        (IsNon2xx(send[t].answers[k]) \/ send[t].answers[k].transport) =>
            /\ ~send[t].results[k].ok
            /\ PostsTo(send[t], send[t].subs[k].endpoint, Len(send[t].subs)) = 1

\* A batch went on to its last subscriber and returned after an earlier
\* subscriber's request was rejected and another's failed in transport.
C4_Witness ==
    \E t \in Tasks :
        /\ send[t].pc = "returned"
        /\ \E j, k \in Ended(send[t]) :
             /\ j < Len(send[t].subs) /\ k < Len(send[t].subs)
             /\ IsNon2xx(send[t].answers[j])
             /\ send[t].answers[k].transport

\* C5: send_one returns Ok exactly when the push service answered with a
\* 2xx status, and every non-2xx answer gives the error "Push endpoint
\* returned" with that status and the body text, empty when the body
\* cannot be read.
C5_SuccessIff2xx ==
    \A t \in Tasks : \A k \in Ended(send[t]) :
        /\ send[t].results[k].ok <=> Is2xx(send[t].answers[k])
        /\ IsNon2xx(send[t].answers[k]) =>
             send[t].results[k] =
                 [ok |-> FALSE, err |-> "Push endpoint returned",
                  status |-> send[t].answers[k].status,
                  body |-> IF send[t].answers[k].readable
                           THEN send[t].answers[k].body ELSE ""]

\* One batch holds a success on status 299, a rejection on status 300 and
\* a rejection whose body could not be read.
C5_Witness ==
    \E t \in Tasks : \E i, j, k \in Ended(send[t]) :
        /\ send[t].answers[i].status = 299 /\ send[t].results[i].ok
        /\ send[t].answers[j].status = 300 /\ ~send[t].results[j].ok
        /\ send[t].answers[k] = Response(410, "gone", FALSE)
        /\ send[t].results[k].body = ""

\* C6: every failure of send_one is returned as the subscriber's result,
\* of the kind of its cause: bad key material gives an invalid-key error,
\* a non-2xx answer gives the rejection with its status and body, a
\* transport failure gives the transport error; no failure ends the call
\* without a result.
C6_EveryFailureIsAResult ==
    \A t \in Tasks :
        /\ send[t].pc # "panicked"
        /\ \A k \in Ended(send[t]) :
             LET sub == send[t].subs[k]
                 r == send[t].results[k]
                 a == send[t].answers[k]
             IN  /\ a.transport => r.err = "reqwest::Error"
                 /\ IsNon2xx(a) => r.err = "Push endpoint returned" /\ r.status = a.status
                 /\ (~sub.p256dh.b64 \/ ~sub.auth.b64 \/ ~sub.p256dh.bytes.valid)
                       => r.err \in InvalidKeyErrors

\* C7: with a VAPID private key that does not decode to a valid scalar,
\* signing fails with an invalid-key error that send_one returns, and
\* nothing panics.
C7_InvalidPrivateKeyIsAnError ==
    config.vapid_private_key # PrivValid =>
        \A t \in Tasks :
            /\ send[t].pc # "panicked"
            /\ \A k \in Ended(send[t]) :
                 (LET sub == send[t].subs[k]
                  IN  /\ sub.p256dh.b64 /\ sub.auth.b64 /\ sub.p256dh.bytes.valid
                      /\ sub.endpoint.parses /\ sub.endpoint.host # NoHost)
                     => send[t].results[k].err \in InvalidKeyErrors

\* p256dh decodes to the 65-byte uncompressed encoding of a curve point.
IsUncompressedPoint(s) ==
    s.b64 /\ s.bytes.len = 65 /\ s.bytes.tag = 4 /\ s.bytes.valid

\* p256dh decodes to a SEC1 encoding of a curve point: uncompressed (65
\* bytes), compressed or compact (33 bytes).
IsSec1Point(s) ==
    /\ s.b64
    /\ s.bytes.valid
    /\ <<s.bytes.tag, s.bytes.len>> \in {<<4, 65>>, <<2, 33>>, <<3, 33>>, <<5, 33>>}

\* Subscriber k of call c was refused for its key: an invalid-key error,
\* no request, no panic.
RefusedForKey(c, k) ==
    /\ c.posts[k] = 0
    /\ k \in Ended(c) => ~c.results[k].ok /\ c.results[k].err \in InvalidKeyErrors
    /\ c.pc = "panicked" => c.i # k
    /\ c.pc = "await" => c.i # k

C9_PostIsBounded ==
    \A t \in {"test_summary"} : (send[t].pc = "await") ~> (send[t].pc # "await")

\* C10: the scheduler survives delivery failures: whatever makes send_one
\* fail during a run, the scheduler task stays alive.
C10_SchedulerStaysAlive ==
    task["scheduler"].pc # "panicked"

\* The fields of a payload, read off its segments in order.
SaltOf(payload) == payload[1].bytes

KeyIdOf(payload) == payload[4].bytes

CiphertextOf(payload) == payload[5].bytes

\* What a payload was encrypted from: the plaintext, the subscriber key
\* and the auth secret.
InputsOf(payload) ==
    LET ikm == CiphertextOf(payload).key.prk.ikm
    IN  <<CiphertextOf(payload).msg.text, ikm.info[3], ikm.prk.salt>>

\* C11: every encryption uses a fresh ephemeral key pair and a fresh salt:
\* any two payloads the process has encrypted, for the same or different
\* subscribers and messages, differ in their salt, in their ephemeral
\* public key and in their ciphertext.
C11_FreshKeyAndSalt ==
    \A i, j \in 1..Len(encrypted) :
        i # j =>
            /\ SaltOf(encrypted[i]) # SaltOf(encrypted[j])
            /\ KeyIdOf(encrypted[i]) # KeyIdOf(encrypted[j])
            /\ CiphertextOf(encrypted[i]) # CiphertextOf(encrypted[j])

\* Two send_one calls of one batch and one of a later batch have encrypted,
\* two of them from identical inputs.
C11_Witness ==
    /\ Len(encrypted) = MaxEncryptions
    /\ \E i, j \in 1..Len(encrypted) :
         i # j /\ InputsOf(encrypted[i]) = InputsOf(encrypted[j])
    /\ \E i, j \in 1..Len(encrypted) :
         InputsOf(encrypted[i]) # InputsOf(encrypted[j])

\* The byte offset at which segment k of a payload starts.
RECURSIVE OffsetOf(_, _)
OffsetOf(payload, k) ==
    IF k = 1 THEN 0 ELSE OffsetOf(payload, k - 1) + payload[k - 1].len

PayloadLength(payload) == OffsetOf(payload, Len(payload) + 1)

\* What a payload holds in its bytes from..to-1, if one run of bytes holds
\* exactly these: a set of one element, or the empty set.
BytesAt(payload, from, to) ==
    {payload[k].bytes : k \in {n \in 1..Len(payload) :
                                  /\ OffsetOf(payload, n) = from
                                  /\ OffsetOf(payload, n) + payload[n].len = to}}

\* The number four bytes denote in network byte order.
BigEndian(b) == ((b[1] * 256 + b[2]) * 256 + b[3]) * 256 + b[4]

\* The draws from OsRng a call has made.
DrawsOf(c) == (c.rng + 1)..c.result.rng

\* C12: the payload of encrypt_payload is one record: the salt drawn in
\* this call in bytes 0..16, the record size 4096 big-endian in bytes
\* 16..20, the key-id length 65 in byte 20, the uncompressed encoding of
\* the ephemeral public key of this call in bytes 21..86, then one AEAD
\* ciphertext with its 16-byte tag that holds the whole plaintext and its
\* delimiter, whatever the plaintext's length.
C12_WireFormat ==
    call.fn = "encrypt_payload" =>
        LET p == call.result.payload
            plaintext == call.args[1]
        IN  /\ \E salt \in BytesAt(p, 0, 16), ct \in BytesAt(p, 86, PayloadLength(p)) :
                 /\ salt.random \in DrawsOf(call)
                 /\ ct.key.prk.salt = salt
                 /\ ct.msg.text = plaintext.text
                 /\ ct.len = plaintext.len + 1 + 16
            /\ \E rs \in BytesAt(p, 16, 20) : BigEndian(rs) = 4096
            /\ BytesAt(p, 20, 21) = {65}
            /\ \E keyid \in BytesAt(p, 21, 86), ct \in BytesAt(p, 86, PayloadLength(p)) :
                 /\ keyid.tag = 4 /\ keyid.len = 65
                 /\ keyid.point \in DrawsOf(call)
                 /\ ct.key.prk.ikm.info[4] = keyid
            /\ PayloadLength(p) = 86 + plaintext.len + 17

\* encrypt_payload has been called on a plaintext longer than a record,
\* after a call on the empty plaintext.
C12_Witness ==
    /\ call.fn = "encrypt_payload"
    /\ call.args[1].len + 17 > RecordSize
    /\ \E i \in 1..Len(encrypted) : CiphertextOf(encrypted[i]).msg.len = 1

\* A reference decryptor of RFC 8291 over RFC 8188: it reads the header
\* from the payload's bytes, splits what follows into records of rs bytes,
\* derives the keys from the subscriber's private key and auth secret, and
\* opens the record.  ua_private is the scalar of the subscriber's point.
\* It yields the opened record, delimiter included, or fails.
Decrypt(payload, ua_private, auth_secret) ==
    LET salt == CHOOSE b \in BytesAt(payload, 0, 16) : TRUE
        rs == BigEndian(CHOOSE b \in BytesAt(payload, 16, 20) : TRUE)
        idlen == CHOOSE b \in BytesAt(payload, 20, 21) : TRUE
        as_public == CHOOSE b \in BytesAt(payload, 21, 21 + idlen) : TRUE
        body == BytesAt(payload, 21 + idlen, PayloadLength(payload))
        record == CHOOSE b \in body : TRUE
        ua_public == to_encoded_point(public_key(ua_private))
        ecdh_secret == diffie_hellman(ua_private, [point |-> as_public.point])
        key_info == <<"WebPush: info", 0, ua_public, as_public>>
        ikm == Hkdf_expand(Hkdf_new(auth_secret, ecdh_secret), key_info, 32)
        prk == Hkdf_new(salt, ikm)
        cek == Hkdf_expand(prk, <<"Content-Encoding: aes128gcm", 0>>, 16)
        nonce == Hkdf_expand(prk, <<"Content-Encoding: nonce", 0>>, 12)
        failed == [ok |-> FALSE, text |-> "", last |-> 0, len |-> 0]
    IN  IF \/ BytesAt(payload, 0, 16) = {}
           \/ BytesAt(payload, 16, 20) = {}
           \/ BytesAt(payload, 20, 21) = {}
        THEN failed
        ELSE IF BytesAt(payload, 21, 21 + idlen) = {} \/ body = {} THEN failed
        ELSE IF as_public.tag # 4 \/ as_public.len # 65 THEN failed
        ELSE IF record.len > rs THEN failed
        ELSE IF record.key # cek \/ record.nonce # nonce THEN failed
        ELSE IF record.msg.last # 2 THEN failed
        ELSE [ok |-> TRUE, text |-> record.msg.text, last |-> record.msg.last,
              len |-> record.msg.len]

\* What the decryptor is to recover: the plaintext and the delimiter 0x02.
Delimited(plaintext) ==
    [ok |-> TRUE, text |-> plaintext.text, last |-> 2, len |-> plaintext.len + 1]

\* C13 (as claimed): for every plaintext, the reference decryptor holding
\* the subscriber's private key and auth secret recovers the plaintext
\* followed by 0x02 from the output of encrypt_payload.
C13_RoundTripEveryPlaintext ==
    call.fn = "encrypt_payload" =>
        Decrypt(call.result.payload, [scalar |-> call.args[2].point], call.args[3])
            = Delimited(call.args[1])

\* C13 (amended): the round trip holds for every plaintext that, with its
\* delimiter and the tag, fits the record size of 4096 bytes (at most 4079
\* bytes, the empty plaintext included); for a longer one the decryptor
\* fails.
C13_RoundTripWithinRecord ==
    call.fn = "encrypt_payload" =>
        LET out == Decrypt(call.result.payload, [scalar |-> call.args[2].point],
                           call.args[3])
        IN  IF call.args[1].len + 17 <= RecordSize
            THEN out = Delimited(call.args[1])
            ELSE ~out.ok

\* The round trip has been made for the empty plaintext, for a plaintext
\* that fills the record, and for a subscriber whose key came compressed.
C13_Witness ==
    /\ Len(encrypted) = MaxEncryptions
    /\ \E i, j, k \in 1..Len(encrypted) :
         /\ CiphertextOf(encrypted[i]).msg.len = 1
         /\ CiphertextOf(encrypted[j]).msg.len + 16 = RecordSize
         /\ InputsOf(encrypted[k])[2] = to_encoded_point(PointOf(P256dhCompressed.bytes))
    /\ call.fn = "encrypt_payload"
    /\ Decrypt(call.result.payload, [scalar |-> call.args[2].point], call.args[3]).ok

\* The origin of a URL that has a host: scheme, "://" and host, then ":"
\* and the port when the URL names a port other than its scheme's default.
Origin(url) ==
    IF url.port = NoPort \/ url.port = DefaultPort(url.scheme)
    THEN url.scheme \o "://" \o url.host
    ELSE url.scheme \o "://" \o url.host \o ":" \o ToString(url.port)

\* The claims a token carries: the JSON object of its second segment.
ClaimsOf(jwt) == jwt[2].bytes.json

\* The step in which task t issues the request of a send_one call.
Requests(t) == send[t].pc = "loop" /\ send'[t].pc = "await"

\* C14: every request carries a token built for it: its aud is the origin
\* of the endpoint the request goes to, which is the endpoint of the
\* subscription at hand, its exp is one hour after the time of the request
\* (not of an earlier one), and it is not the origin of any endpoint of
\* another origin in the batch.
C14_TokenPerRequest ==
    [][\A t \in Tasks :
          Requests(t) =>
              LET c == send[t]
                  sub == c.subs[c.i]
                  req == send'[t].request
                  claims == ClaimsOf(req.authorization.t)
              IN  /\ req.url = sub.endpoint
                  /\ claims.aud = Origin(sub.endpoint)
                  /\ claims.exp = Timestamp(now) + SecondsPerHour
                  /\ \A k \in 1..Len(c.subs) :
                       Origin(c.subs[k].endpoint) # Origin(sub.endpoint)
                       => claims.aud # Origin(c.subs[k].endpoint)]_vars

\* The second request of a batch is in flight to push.example.com:8443
\* with a token for that origin issued after the clock advanced, the first
\* request having gone to fcm.googleapis.com.
C14_Witness ==
    \E t \in Tasks :
        /\ send[t].pc = "await"
        /\ send[t].i = 2
        /\ send[t].posts[1] = 1
        /\ send[t].subs[1].endpoint = EpFcm
        /\ ClaimsOf(send[t].request.authorization.t).aud = "https://push.example.com:8443"
        /\ ClaimsOf(send[t].request.authorization.t).exp > SecondsPerHour

\* The bytes a base64url segment decodes to, and whether it decodes.
IsB64Segment(segment) == DOMAIN segment = {"b64", "bytes"} /\ segment.b64

\* C15: a token build_vapid_jwt returns has exactly three dot-separated
\* base64url segments; the third decodes to 64 bytes; the second decodes
\* to a JSON object with exactly the keys aud, exp and sub, holding the
\* audience argument, the issue time plus 3600 seconds, and the subject
\* argument.
C15_JwtStructure ==
    (call.fn = "build_vapid_jwt" /\ call.result.tag = "ok") =>
        LET jwt == call.result.jwt
        IN  /\ Len(jwt) = 3
            /\ \A n \in 1..Len(jwt) : IsB64Segment(jwt[n])
            /\ jwt[3].bytes.len = 64
            /\ DOMAIN jwt[2].bytes = {"json"}
            /\ DOMAIN jwt[2].bytes.json = {"aud", "exp", "sub"}
            /\ jwt[2].bytes.json.aud = call.args[1]
            /\ jwt[2].bytes.json.sub = call.args[2]
            /\ jwt[2].bytes.json.exp = call.args[4] + 3600

\* A token has been built at the last hour for the origin with a port and
\* the subject that is a URL.
C15_Witness ==
    /\ call.fn = "build_vapid_jwt"
    /\ call.result.tag = "ok"
    /\ call.args[4] = Timestamp(MaxHour)
    /\ call.args[1] = "https://push.example.com:8443"
    /\ call.args[2] = "https://weather.example/contact"

\* The public key of a private key, and ES256 verification: the signature
\* was made with the private key of this public key over this message.
VerifyingKey(private_key) == [public_of |-> private_key]

Verifies(verifying_key, message, signature) ==
    /\ signature.key = verifying_key.public_of
    /\ signature.msg = message
    /\ signature.len = 64

\* C16: the third segment of a token build_vapid_jwt returns verifies,
\* under ES256, against the public key of the private key it was given,
\* over the first two segments joined by a dot.
C16_SignatureVerifies ==
    (call.fn = "build_vapid_jwt" /\ call.result.tag = "ok") =>
        LET jwt == call.result.jwt
        IN  /\ Len(jwt) = 3
            /\ Verifies(VerifyingKey(call.args[3].bytes), <<jwt[1], jwt[2]>>, jwt[3].bytes)

\* A token has been signed with the second of two valid private keys, and
\* its signature does not verify against the public key of the first.
C16_Witness ==
    /\ call.fn = "build_vapid_jwt"
    /\ call.result.tag = "ok"
    /\ call.args[3] = PrivOther
    /\ ~Verifies(VerifyingKey(PrivValid.bytes),
                 <<call.result.jwt[1], call.result.jwt[2]>>, call.result.jwt[3].bytes)

\* C17: for an endpoint that parses and has a host, extract_origin returns
\* scheme://host, followed by :port exactly when the URL names a port that
\* is not its scheme's default, and nothing of the path, query or fragment;
\* for an endpoint that does not parse or has no host it returns an error.
C17_OriginExtraction ==
    call.fn = "extract_origin" =>
        LET endpoint == call.args[1]
        IN  /\ (endpoint.parses /\ endpoint.host # NoHost) =>
                  /\ call.result.ok
                  /\ call.result.origin = Origin(endpoint)
            /\ ~(endpoint.parses /\ endpoint.host # NoHost) => ~call.result.ok
            /\ endpoint = EpFcm => call.result.origin = "https://fcm.googleapis.com"
            /\ endpoint = EpPort => call.result.origin = "https://push.example.com:8443"
            /\ endpoint = EpDefaultPort =>
                  call.result.origin = "https://updates.push.example"

\* extract_origin has been called on an http URL with port 443, a path, a
\* query and a fragment, and has returned the origin with that port.
C17_Witness ==
    /\ call.fn = "extract_origin"
    /\ call.args[1] = Url("http", "push.local", 443, "/p?topic=a#top")
    /\ call.result.ok
    /\ call.result.origin = "http://push.local:443"

\* C18: every request send_one issues is a POST to the endpoint of the
\* subscription at hand; its body is the payload encrypted in this call,
\* for this call's message; its headers are Content-Type:
\* application/octet-stream, Content-Encoding: aes128gcm, TTL: 43200,
\* Urgency: high and Authorization: vapid t=<the token of this call>,
\* k=<the configured VAPID public key>.
C18_RequestShape ==
    [][\A t \in Tasks :
          Requests(t) =>
              LET c == send[t]
                  sub == c.subs[c.i]
                  req == send'[t].request
              IN  /\ req.method = "POST"
                  /\ req.url = sub.endpoint
                  /\ Len(encrypted') = Len(encrypted) + 1
                  /\ req.body = encrypted'[Len(encrypted')]
                  /\ InputsOf(req.body)[1] = c.message
                  /\ req.content_type = "application/octet-stream"
                  /\ req.content_encoding = "aes128gcm"
                  /\ req.ttl = "43200"
                  /\ req.urgency = "high"
                  /\ req.authorization.scheme = "vapid"
                  /\ req.authorization.k = config.vapid_public_key
                  /\ Len(req.authorization.t) = 3
                  /\ ClaimsOf(req.authorization.t) =
                         [aud |-> Origin(sub.endpoint),
                          exp |-> Timestamp(now) + SecondsPerHour,
                          sub |-> config.vapid_subject]]_vars

\* The request of the last subscriber of a batch of three is in flight,
\* with the third payload encrypted as its body.
C18_Witness ==
    \E t \in Tasks :
        /\ send[t].pc = "await"
        /\ send[t].i = MaxSubs
        /\ send[t].request.method = "POST"
        /\ send[t].request.url = send[t].subs[MaxSubs].endpoint
        /\ Len(encrypted) = MaxEncryptions
        /\ send[t].request.body = encrypted[Len(encrypted)]

\* A step of the dispatcher made for task t: of send_all's loop or of a
\* send_one call, up to the moment the caller has the results.
DispatcherStep(t) ==
    /\ send[t].pc \in {"loop", "await"}
    /\ send'[t] # send[t]

\* C19: the dispatcher writes no persistent state: no step of send_one or
\* send_all changes the subscription store, the notification log or the
\* radiator setting, whatever the outcome (a 410 answer included), and a
\* record leaves the store only in a step that is an unsubscribe of its
\* endpoint.
C19_DispatcherWritesNothing ==
    [][/\ \A t \in Tasks :
            DispatcherStep(t) =>
                /\ subscriptions' = subscriptions
                /\ notification_log' = notification_log
                /\ radiator_setting' = radiator_setting
       /\ \A e \in KnownEndpoints :
            (HasRecord(subscriptions, e) /\ ~HasRecord(subscriptions', e)) =>
                /\ ledger[e].op = "subscribe"
                /\ ledger'[e] = Deleted]_vars

\* A test-summary batch has returned with a 410 answer for a subscription
\* that is still listed, after another subscription was unsubscribed.
C19_Witness ==
    /\ send["test_summary"].pc = "returned"
    /\ \E k \in Ended(send["test_summary"]) :
         /\ send["test_summary"].answers[k].status = 410
         /\ HasRecord(subscriptions, send["test_summary"].subs[k].endpoint)
    /\ \E e \in KnownEndpoints : ledger[e] = Deleted

\* C20: after any sequence of subscribe and unsubscribe requests the store
\* holds at most one record per endpoint, a record for an endpoint exists
\* exactly when the last store operation that succeeded on that endpoint
\* was a subscribe, and the record of an endpoint still has the p256dh and
\* auth it was created with.
C20_OneImmutableRecordPerEndpoint ==
    /\ \A i, j \in 1..Len(subscriptions) :
         i # j => subscriptions[i].endpoint # subscriptions[j].endpoint
    /\ \A e \in KnownEndpoints :
         /\ HasRecord(subscriptions, e) <=> ledger[e].op = "subscribe"
         /\ HasRecord(subscriptions, e) =>
              /\ RecordOf(subscriptions, e).p256dh = ledger[e].p256dh
              /\ RecordOf(subscriptions, e).auth = ledger[e].auth

\* The call of send_one that task t has in hand.
InHand(t) == send[t].subs[send[t].i]

FailingStep(sub) ==
    CASE ~(sub.p256dh.b64 /\ sub.auth.b64 /\ IsSec1Point(sub.p256dh)) -> "decode"
      [] ~(sub.endpoint.parses /\ sub.endpoint.host # NoHost) -> "origin"
      [] config.vapid_private_key # PrivValid -> "sign"
      [] OTHER -> "none"

\* The errors with which a step ends the call.
ErrorsOf(step) ==
    CASE step = "decode" -> {"base64::DecodeError", "Invalid p256dh"}
      [] step = "origin" -> {"url::ParseError", "No host in endpoint URL"}
      [] step = "sign" -> {"base64::DecodeError", "Invalid VAPID private key"}
      [] OTHER -> {}

\* The step in which task t runs a send_one call up to its POST or its end.
Calls(t) ==
    /\ send[t].pc = "loop"
    /\ send[t].i <= Len(send[t].subs)
    /\ send'[t] # send[t]

\* C22: send_one decodes the subscriber keys, encrypts, extracts the
\* origin, signs the JWT and issues the POST, in this order: a request is
\* issued only when the four steps before it succeeded, a payload is
\* encrypted exactly when the keys decoded (whatever the later steps do),
\* and when a step fails the call ends with the error of the first failing
\* step, as a result of the batch, and without a request.
C22_StepsInOrder ==
    [][\A t \in Tasks :
          Calls(t) =>
              LET step == FailingStep(InHand(t))
                  k == send[t].i
              IN  /\ Requests(t) => step = "none"
                  /\ encrypted' # encrypted <=> step # "decode"
                  /\ step # "none" =>
                        /\ send'[t].pc = "loop"
                        /\ Len(send'[t].results) = k
                        /\ ~send'[t].results[k].ok
                        /\ send'[t].results[k].err \in ErrorsOf(step)
                        /\ send'[t].posts[k] = 0]_vars

\* The step in which the scheduler calls send_all with the daily summary.
SendsSummary ==
    /\ task["scheduler"].pc # "summary_send"
    /\ task'["scheduler"].pc = "summary_send"

\* C23: over the runs of the scheduler, restarts of the process included,
\* send_all is called with the daily summary at most once per local date,
\* and only in a run whose local hour is summary_hour and that finds no
\* daily_summary entry for the date in the notification log.
C23_SummaryOncePerDate ==
    [][SendsSummary =>
          /\ HourOf(now) = config.summary_hour
          /\ <<"daily_summary", DateOf(now)>> \notin notification_log
          /\ <<"daily_summary", DateOf(now)>> \notin sent]_vars

\* The scheduler is in a call of send_all for a notification.
Sending == task["scheduler"].pc \in {"summary_send", "radiator_send"}

\* The notification the scheduler's run is about, as a log entry.
EntryOf(t) == <<t.locals.kind, t.locals.today>>

\* C24: a call of send_all by the scheduler is followed by the entry of
\* the notification in the log, whatever the deliveries gave (all failed,
\* none attempted), unless the write of the entry itself fails and
\* run_check returns its error; a notification that has its entry is not
\* sent again on that date.
C24_SentIsLogged ==
    [][/\ (Sending /\ task'["scheduler"] # task["scheduler"]) =>
             \/ EntryOf(task["scheduler"]) \in notification_log'
             \/ /\ task'["scheduler"] = Failed
                /\ notification_log' = notification_log
       /\ (~Sending /\ Sending') =>
             EntryOf(task'["scheduler"]) \notin notification_log]_vars

\* The step in which the scheduler calls send_all with a radiator
\* notification.
SendsRadiator ==
    /\ task["scheduler"].pc # "radiator_send"
    /\ task'["scheduler"].pc = "radiator_send"

\* The settings temp_to_radiator_setting recommends for a finite average.
FiniteSettings == {0, 20, 35}

\* C25: a run sends a radiator notification only when the recommended
\* setting is finite and no setting is stored or the stored one differs
\* from it by 0.5 or more, and no notification for the same rounded
\* recommended setting was sent before on the date.
C25_RadiatorOncePerSettingAndDate ==
    [][SendsRadiator =>
          LET l == task'["scheduler"].locals
          IN  /\ l.recommended_setting \in FiniteSettings
              /\ \/ radiator_setting = NoSetting
                 \/ l.recommended_setting - radiator_setting >= 5
                 \/ radiator_setting - l.recommended_setting >= 5
              /\ \A e \in sent :
                    ~(e[1] = l.kind /\ e[2] = DateOf(now))]_vars

\* The setting the claim gives for a submitted number: 3.5 from 2.75 up,
\* 2.0 from 1.0 up to 2.75, 0 for any other value that parses as a number
\* (NaN, which parse::<f64> accepts, is such a value).
SettingFor(value) ==
    CASE value = NaN -> 0
      [] value >= 275 -> 35
      [] value >= 100 /\ value < 275 -> 20
      [] OTHER -> 0

C27_SubscribeAnswer ==
    [][LET old == task["subscribe"]
           new == task'["subscribe"]
       IN  /\ (old.pc # "send" /\ new # old) =>
                 \/ /\ new.pc = "send"
                    /\ new.reply = "none"
                    /\ HasRecord(subscriptions', new.locals.subs[1].endpoint)
                    /\ RecordOf(subscriptions', new.locals.subs[1].endpoint)
                           = new.locals.subs[1]
                    /\ send'["subscribe"].pc = "loop"
                    /\ send'["subscribe"].subs = new.locals.subs
                 \/ /\ new.pc = "idle"
                    /\ new.reply = "ok: false"
                    /\ subscriptions' = subscriptions
                    /\ send'["subscribe"] = IdleSend
           /\ (old.pc = "send" /\ new # old) =>
                 /\ new.pc = "idle"
                 /\ new.reply = "ok: true"]_vars

====
